---- MODULE Spec2Model ----
(***************************************************************************)
(* The outbound request dispatcher of discord/http.py: HTTPClient.request, *)
(* HTTPClient.get_lock, DeferrableLock, Ratelimiter and the global_event   *)
(* gate, run by several asyncio tasks on one event loop.                   *)
(*                                                                         *)
(* One action is one resumption of a task: everything the coroutine does   *)
(* from the point where it was suspended to the next point where it        *)
(* suspends (a held lock, a cleared Event, a sleep, the transport call).   *)
(* asyncio.Lock.acquire and asyncio.Event.wait do not suspend when the     *)
(* lock is free / the event is set, so such code runs on in the same       *)
(* action.  A waiter that was woken (its future was given a result) runs   *)
(* in a later action.  The loop runs its ready callbacks first in, first   *)
(* out: between the wake-up and the run of the woken task only those tasks *)
(* and call_later handles can run whose own wait began before the wake-up  *)
(* (their callback may already be queued); `ahead` keeps them.             *)
(*                                                                         *)
(* Time is counted in units of half a second.  A sleep of d units cannot   *)
(* end before d Ticks; it may end later (the loop may be busy).            *)
(***************************************************************************)
EXTENDS Integers, Sequences, FiniteSets, TLC

\* ---------------------------------------------------------------- bounds
NumReq == 3          \* concurrent calls of HTTPClient.request
MaxFaults == 2       \* faults injected into concurrent requests (Spec)
RateAmount == 1      \* slots of the limiter window (stands for the 60 of RateLimitItemPerSecond)
MaxDelta == 1        \* largest window-reset delta a response header carries (units)
MaxSends == 2        \* typing requests one do_typing task starts before its deadline
MaxWord == 2         \* characters of a query or of a choice passed to fuzz.extract
MaxChoices == 2      \* choices passed to fuzz.extract
MaxJoined == 3       \* characters of all the choices of one call together
NumWatched == 2      \* concurrent requests while the history is observed (SpecObserved)

\* ------------------------------------------------------ program constants
MaxTries == 5        \* for tries in range(5)
LastTry == 4         \* if tries < 4: continue
SafetyMargin == 1    \* retry_after + 0.5 (seconds), in units
WindowLen == 2       \* RateLimitItemPerSecond(60, 1): a 1 second window, in units
MsPerUnit == 500     \* retry_after / 1000.0 seconds, in units of half a second

Req == 1..NumReq
NoLock == 0
None == 0

\* ---------------------------------------------------------------- Route
\* str() of an id (a positive int) or of None, as an f-string formats it
Digit(d) ==
    CASE d = 0 -> "0" [] d = 1 -> "1" [] d = 2 -> "2" [] d = 3 -> "3" [] d = 4 -> "4"
      [] d = 5 -> "5" [] d = 6 -> "6" [] d = 7 -> "7" [] d = 8 -> "8" [] d = 9 -> "9"

RECURSIVE Decimal(_)
Decimal(n) == IF n < 10 THEN Digit(n) ELSE Decimal(n \div 10) \o Digit(n % 10)

Str(v) == IF v = None THEN "None" ELSE Decimal(v)

\* Route.BASE
BASE == "https://discord.com/api/v7"

\* The replacement fields of the path templates the model uses, as str.format
\* reads them: literal text and {field} in turn
Lit(text) == [lit |-> text]
Field(name) == [field |-> name]

Tokens(path) ==
    CASE path = "/channels/{channel_id}/messages" ->
            <<Lit("/channels/"), Field("channel_id"), Lit("/messages")>>
      [] path = "/channels/{channel_id}/messages/{message_id}" ->
            <<Lit("/channels/"), Field("channel_id"), Lit("/messages/"), Field("message_id")>>
      [] path = "/guilds/{guild_id}/channels" ->
            <<Lit("/guilds/"), Field("guild_id"), Lit("/channels")>>
      [] path = "/guilds/{guild_id}/members/{user_id}" ->
            <<Lit("/guilds/"), Field("guild_id"), Lit("/members/"), Field("user_id")>>
      [] OTHER -> <<Lit(path)>>

\* url.format(**parameters): each field replaced by str() of its parameter
\* (ids are ints, so _uriquote is not applied); parameters the template does
\* not name are ignored
RECURSIVE Format(_, _)
Format(tokens, parameters) ==
    IF tokens = <<>> THEN ""
    ELSE LET tok == Head(tokens)
         IN (IF "lit" \in DOMAIN tok THEN tok.lit ELSE Str(parameters[tok.field]))
            \o Format(Tail(tokens), parameters)

\* parameters.get(name)
Get(parameters, name) == IF name \in DOMAIN parameters THEN parameters[name] ELSE None

MkRouteUnformatted(method, path, parameters) ==
    [method |-> method, path |-> path, url |-> BASE \o path,
     channel_id |-> Get(parameters, "channel_id"), guild_id |-> Get(parameters, "guild_id")]

\* Route.__init__ keeps the method, the path template, the formatted url and
\* channel_id and guild_id from the parameters (None when absent)
MkRoute(method, path, parameters) ==
    [method |-> method, path |-> path,
     url |-> BASE \o (IF DOMAIN parameters # {} THEN Format(Tokens(path), parameters) ELSE path),
     channel_id |-> Get(parameters, "channel_id"), guild_id |-> Get(parameters, "guild_id")]

RouteBucketByUrl(route) == route.url

\* Route.bucket formats channel_id and guild_id with the path template
RouteBucket(route) == Str(route.channel_id) \o ":" \o Str(route.guild_id) \o ":" \o route.path

\* **parameters of a call that passes none
NoParameters == [name \in {} |-> None]

\* The routes the callers of the model use: one path template, a channel each.
Channels == 1..NumReq

Routes == { MkRoute("POST", "/channels/{channel_id}/messages", [channel_id |-> c]) : c \in Channels }

\* The routes caller q may ask for.  Requests run the same code and channels
\* differ in nothing but the key, so every way of spreading the requests
\* over buckets is, up to renaming, one where the first caller uses channel 1
\* and caller q uses channel 1 or channel q.
CallerRoutes(q) == { rt \in Routes : rt.channel_id \in {1, q} }

\* The routes built with no parameters: static_login, get_gateway,
\* get_bot_gateway and get_guilds
LoginRoute == MkRoute("GET", "/users/@me", NoParameters)
GatewayRoute == MkRoute("GET", "/gateway", NoParameters)
BotGatewayRoute == MkRoute("GET", "/gateway/bot", NoParameters)
GuildsRoute == MkRoute("GET", "/users/@me/guilds", NoParameters)

UnscopedRoutes == {LoginRoute, GatewayRoute, BotGatewayRoute, GuildsRoute}

BucketKeys == { RouteBucket(rt) : rt \in Routes \cup UnscopedRoutes }

\* `if not bucket`: a str is falsy only when empty
Falsy(bucket) == Len(bucket) = 0

\* ------------------------------------------------------------- responses
Bodies == {"d1", "d2"}
RetryAfterMs == {0, 500}
Statuses == {200, 429, 500, 502, 403, 404, 503, 400}

\* What the transport returns: the status, the decoded body (data), the Via
\* header, the X-Ratelimit-Remaining header being "0", the reset delta of
\* the headers, and for a 429 body its retry_after (ms) and global fields.
Resp(status, data, via, remaining0, delta, retry_after, global) ==
    [status |-> status, data |-> data, via |-> via, remaining0 |-> remaining0,
     delta |-> delta, retry_after |-> retry_after, global |-> global]

\* Every response a single request is tried on
AllResponses ==
    { Resp(s, d, TRUE, FALSE, 0, 0, FALSE) : s \in Statuses \ {429}, d \in Bodies }
    \cup { Resp(s, "d1", TRUE, TRUE, dl, 0, FALSE) : s \in {200, 500, 403}, dl \in 0..MaxDelta }
    \cup { Resp(429, d, TRUE, z, MaxDelta, ms, g) :
              d \in Bodies, z \in BOOLEAN, ms \in RetryAfterMs, g \in BOOLEAN }
    \cup { Resp(429, d, FALSE, FALSE, 0, 500, g) : d \in Bodies, g \in BOOLEAN }

\* The responses concurrent requests are tried on
Responses ==
    { Resp(s, "d1", TRUE, FALSE, 0, 0, FALSE) : s \in {200, 500} }
    \cup { Resp(200, "d1", TRUE, TRUE, MaxDelta, 0, FALSE) }
    \cup { Resp(429, "d1", TRUE, FALSE, 0, ms, g) : ms \in RetryAfterMs, g \in BOOLEAN }

\* kwargs without "params"
NoParams == <<>>

\* tornado's url_concat(url, args): the pairs of args are appended to the
\* pairs of the url's query and the query is encoded again
UrlConcat(pairs, args) == pairs \o args

NoResp == [status |-> 0, data |-> "none"]
NoResult == [kind |-> "none", status |-> 0, data |-> "none"]

ToUnits(ms) == ms \div MsPerUnit

\* the retry_after of a 429 whose body has no such field
Missing == -1

VARIABLES
    pc,            \* where each request task is suspended, or how it ended
    route,         \* the Route of each request
    lock,          \* the DeferrableLock each request got from get_lock (its id)
    tries,         \* the loop variable of `for tries in range(5)`
    timer,         \* units left of the asyncio.sleep the task is in
    fut,           \* the future the task awaits in Lock.acquire / Event.wait
    r,             \* the locals r and data: the last response received
    result,        \* what the call returned or raised
    locks,         \* HTTPClient._locks: bucket -> lock
    locked,        \* asyncio.Lock._locked of each lock
    waiters,       \* asyncio.Lock._waiters of each lock (FIFO)
    delay,         \* DeferrableLock.delay of each lock
    release_at,    \* the call_later(delay, release) handle each request's __aexit__ made
    global_event,  \* HTTPClient.global_event (set = open)
    window,        \* the limiter's moving window: window[k] entries expire in k units
    ahead,         \* the loop's ready queue: who may still run before each woken task
    calls,         \* history: transport calls each request has started
    cancelled,     \* history: a cancellation was delivered to the request
    cooldown,      \* history: units left of the longest global lockout observed
    terrs,         \* history: attempts of each request that ended in a transport error
    clean,         \* history: the request has received no non-2xx response
    last,          \* history: how the latest attempt of each request ended
    budget,        \* environment: faults (non-2xx responses, transport errors) it may still inject
    control_lock,  \* HTTPClient.control_lock is held
    params,        \* kwargs["params"] of each request (empty when the caller passes none)
    query,         \* the local url of each request: the query that url_concat has put on route.url
    api,           \* the method of the client each caller went through to request()
    token,         \* HTTPClient.token
    bot_token,     \* HTTPClient.bot_token
    saved,         \* the locals old_token, old_bot of static_login
    outcome,       \* what the method of the client returned or raised to its caller
    arrival,       \* history: the requests in the order of their Lock.acquire calls
    owed,          \* history: the reset delta of each request's latest response with remaining = 0 (not 429)
    backoff,       \* history: units left of the longest bucket 429 retry_after seen on each lock
    hold,          \* history: units left of the deferral owed when the holder of each lock exited
    sent,          \* history: transport calls started since the last Tick
    via_header,    \* history: the latest response of each request had a Via header
    redis,         \* fuzz: the entries of the key-value store, one [key, value] per key
    redis_locks,   \* fuzz: the keys whose lock (redis.get_lock) is held
    extracting     \* fuzz: each call of extract: where it is suspended and its locals

vars == <<pc, route, lock, tries, timer, fut, r, result, locks, locked, waiters,
          delay, release_at, global_event, window, ahead, calls, cancelled, cooldown,
          terrs, clean, last, budget, control_lock, params, query, api, token, bot_token,
          saved, outcome, arrival, owed, backoff, hold, sent, via_header,
          redis, redis_locks, extracting>>

\* the history variables that only observers write
observed == <<arrival, owed, backoff, hold, sent>>

\* what static_login, get_gateway and get_bot_gateway read and write around
\* their call of request()
caller == <<api, token, bot_token, saved, outcome>>

\* the state of fuzz.extract, which the HTTP client never touches
fuzzy == <<redis, redis_locks, extracting>>

\* a call of extract that has not been made
NotCalled == [pc |-> "idle", query |-> <<>>, choices |-> <<>>, key |-> <<>>, cached |-> <<>>]


NoTimer == -1
NoRoute == MkRoute("", "", NoParameters)

Max(a, b) == IF a >= b THEN a ELSE b

\* The client after HTTPClient.__init__, no request started; n is the number
\* of faults the environment may inject.
InitWith(n) ==
    /\ pc = [q \in Req |-> "idle"]
    /\ route = [q \in Req |-> NoRoute]
    /\ lock = [q \in Req |-> NoLock]
    /\ tries = [q \in Req |-> 0]
    /\ timer = [q \in Req |-> 0]
    /\ fut = [q \in Req |-> "none"]
    /\ r = [q \in Req |-> NoResp]
    /\ result = [q \in Req |-> NoResult]
    /\ locks = [b \in BucketKeys |-> NoLock]              \* self._locks = {}
    /\ locked = [l \in Req |-> FALSE]
    /\ waiters = [l \in Req |-> <<>>]
    /\ delay = [l \in Req |-> 0]                          \* self.delay = 0
    /\ release_at = [q \in Req |-> NoTimer]
    /\ global_event = TRUE                                \* self.global_event.set()
    /\ window = [k \in 1..WindowLen |-> 0]
    /\ ahead = [q \in Req |-> {}]
    /\ calls = [q \in Req |-> 0]
    /\ cancelled = [q \in Req |-> FALSE]
    /\ cooldown = 0
    /\ terrs = [q \in Req |-> 0]
    /\ clean = [q \in Req |-> TRUE]
    /\ last = [q \in Req |-> "none"]
    /\ budget = n
    /\ control_lock = FALSE
    /\ params = [q \in Req |-> NoParams]
    /\ query = [q \in Req |-> <<>>]                       \* url = route.url
    /\ api = [q \in Req |-> "none"]
    /\ token = None                                       \* self.token = None
    /\ bot_token = FALSE                                  \* self.bot_token = False
    /\ saved = <<None, FALSE>>
    /\ outcome = [q \in Req |-> NoResult]
    /\ arrival = <<>>
    /\ owed = [q \in Req |-> 0]
    /\ backoff = [l \in Req |-> 0]
    /\ hold = [l \in Req |-> 0]
    /\ sent = 0
    /\ via_header = [q \in Req |-> TRUE]
    /\ redis = {}
    /\ redis_locks = {}
    /\ extracting = [q \in Req |-> NotCalled]

Init == InitWith(MaxFaults)

\* ------------------------------------------------------------ Ratelimiter
WindowCount == window[1] + window[2]

\* Ratelimiter.test: a slot is free in the moving window
LimiterTest == WindowCount < RateAmount

\* -------------------------------------------------------- HTTPClient.get_lock
\* Runs without suspending: control_lock is free whenever a task is resumed,
\* because its holder never awaits inside it.  A lock object is named by the
\* request whose get_lock call constructed it; `control` is control_lock as
\* the exit of `async with self.control_lock:` leaves it.
GetLockShared(q, bucket) ==
    LET made == { b \in BucketKeys : locks[b] # NoLock }
        l == IF made = {} THEN q ELSE locks[CHOOSE b \in made : TRUE]
    IN [lock |-> l, locks |-> [locks EXCEPT ![bucket] = l], control |-> FALSE]

GetLockUnregistered(q, bucket) ==
    IF Falsy(bucket) \/ locks[bucket] = NoLock
    THEN [lock |-> q, locks |-> locks, control |-> FALSE]
    ELSE [lock |-> locks[bucket], locks |-> locks, control |-> FALSE]

GetLockFresh(q, bucket) ==
    IF Falsy(bucket) THEN [lock |-> q, locks |-> locks, control |-> FALSE]
    ELSE [lock |-> q, locks |-> [locks EXCEPT ![bucket] = q], control |-> FALSE]

GetLock(q, bucket) ==
    IF Falsy(bucket) THEN [lock |-> q, locks |-> locks, control |-> FALSE]
    ELSE IF locks[bucket] = NoLock
         THEN [lock |-> q, locks |-> [locks EXCEPT ![bucket] = q], control |-> FALSE]
         ELSE [lock |-> locks[bucket], locks |-> locks, control |-> FALSE]

\* ------------------------------------------------------------ asyncio.Lock
CanTakeUnqueued(l) == waiters[l] = <<>>

\* Lock.acquire takes the lock at once when it is free and nobody waits
CanTake(l) == ~locked[l] /\ waiters[l] = <<>>

Without(seq, q) == SelectSeq(seq, LAMBDA x : x # q)

WakeAll(ws, futs) ==
    [q \in Req |-> IF \E i \in DOMAIN ws : ws[i] = q /\ futs[q] = "pending" THEN "done" ELSE futs[q]]

WakeNobody(ws, futs) == futs

WakeLast(ws, futs) ==
    IF ws # <<>> /\ futs[ws[Len(ws)]] = "pending"
    THEN [futs EXCEPT ![ws[Len(ws)]] = "done"]
    ELSE futs

\* Lock._wake_up_first on the waiters ws: the first waiter's future gets its
\* result unless it is already done
WakeFirst(ws, futs) ==
    IF ws # <<>> /\ futs[Head(ws)] = "pending"
    THEN [futs EXCEPT ![Head(ws)] = "done"]
    ELSE futs

\* ----------------------------------------------------- HTTPClient.request
InRangeOneMore(t) == t <= MaxTries

\* for tries in range(5)
InRange(t) == t < MaxTries

RetriedFallsThrough(exc, t) == exc.kind # "CancelledError"

RetriedNever(exc, t) == FALSE

RetriedCancellation(exc, t) == t < LastTry

\* except asyncio.CancelledError: raise / except Exception: if tries < 4: continue / else: raise
Retried(exc, t) == exc.kind # "CancelledError" /\ t < LastTry

\* the raise statements that classify a status
ClassifyPlain(status) == "HTTPException"

Classify(status) ==
    IF status = 403 THEN "Forbidden"
    ELSE IF status = 404 THEN "NotFound"
    ELSE IF status = 503 THEN "DiscordServerError"
    ELSE "HTTPException"

RetriesExhaustedPlain(rs) ==
    [kind |-> "HTTPException", status |-> rs.status, data |-> rs.data]

\* after the loop: "We've run out of retries, raise."
RetriesExhausted(rs) ==
    [kind |-> IF rs.status >= 500 THEN "DiscordServerError" ELSE "HTTPException",
     status |-> rs.status, data |-> rs.data]

\* Where the task next suspends when control is at the head of the loop with
\* index t (stage "head"), or just past global_event.wait() (stage
\* "throttle"); ev is global_event as this step leaves it.
Target(t, ev, stage) ==
    IF stage = "head" /\ ~InRange(t) THEN "exhausted"
    ELSE IF stage = "head" /\ ~ev THEN "wait_global"
    ELSE IF ~LimiterTest THEN "poll"
    ELSE "fetch"

\* DeferrableLock.__aexit__ as the request ends in state how with outcome res:
\* call_later(self.delay, self.release); self.delay = 0
LeaveKeepingDelay(q, l, how, res, dly, futs) ==
    /\ pc' = [pc EXCEPT ![q] = how]
    /\ result' = [result EXCEPT ![q] = res]
    /\ release_at' = [release_at EXCEPT ![q] = dly]
    /\ delay' = [delay EXCEPT ![l] = dly]
    /\ timer' = [timer EXCEPT ![q] = 0]
    /\ fut' = [futs EXCEPT ![q] = "none"]
    /\ UNCHANGED <<tries, calls, query>>

LeaveWaitingOut(q, l, how, res, dly, futs) ==
    /\ pc' = [pc EXCEPT ![q] = IF dly > 0 THEN "ssleep" ELSE how]
    /\ result' = [result EXCEPT ![q] = res]
    /\ release_at' = [release_at EXCEPT ![q] = dly]
    /\ delay' = [delay EXCEPT ![l] = 0]
    /\ timer' = [timer EXCEPT ![q] = dly]
    /\ fut' = [futs EXCEPT ![q] = "none"]
    /\ UNCHANGED <<tries, calls, query>>

LeaveReleasingAtOnce(q, l, how, res, dly, futs) ==
    /\ pc' = [pc EXCEPT ![q] = how]
    /\ result' = [result EXCEPT ![q] = res]
    /\ release_at' = [release_at EXCEPT ![q] = 0]
    /\ delay' = [delay EXCEPT ![l] = 0]
    /\ timer' = [timer EXCEPT ![q] = 0]
    /\ fut' = [futs EXCEPT ![q] = "none"]
    /\ UNCHANGED <<tries, calls, query>>

Leave(q, l, how, res, dly, futs) ==
    /\ pc' = [pc EXCEPT ![q] = how]
    /\ result' = [result EXCEPT ![q] = res]
    /\ release_at' = [release_at EXCEPT ![q] = dly]
    /\ delay' = [delay EXCEPT ![l] = 0]
    /\ timer' = [timer EXCEPT ![q] = 0]
    /\ fut' = [futs EXCEPT ![q] = "none"]
    /\ UNCHANGED <<tries, calls, query>>

\* The task runs on from the loop head (or from the throttle) to its next
\* suspension; dly is the lock's delay, rs the locals r/data, futs the futures
\* as this step leaves them.
Continue(q, l, t, ev, dly, rs, futs, stage) ==
    LET tgt == Target(t, ev, stage) IN
    IF tgt = "exhausted"
    THEN Leave(q, l, "raised", RetriesExhausted(rs), dly, futs)
    ELSE /\ pc' = [pc EXCEPT ![q] = tgt]
         /\ tries' = [tries EXCEPT ![q] = t]
         /\ timer' = [timer EXCEPT ![q] = 0]
         /\ fut' = [futs EXCEPT ![q] = IF tgt = "wait_global" THEN "pending" ELSE "none"]
         /\ calls' = [calls EXCEPT ![q] = IF tgt = "fetch" THEN @ + 1 ELSE @]
         \* if "params" in kwargs: url = url_concat(url, kwargs["params"])
         /\ query' = [query EXCEPT ![q] = IF tgt = "fetch" THEN UrlConcat(@, params'[q]) ELSE @]
         /\ delay' = [delay EXCEPT ![l] = dly]
         /\ UNCHANGED <<result, release_at>>

\* An exception exc reaches the except clauses of the try in iteration tries[q]
Except(q, l, exc, ev, dly, rs, futs) ==
    IF Retried(exc, tries[q])
    THEN Continue(q, l, tries[q] + 1, ev, dly, rs, futs, "head")
    ELSE Leave(q, l, IF exc.kind = "CancelledError" THEN "cancelled" ELSE "raised",
               exc, dly, futs)

SleepClearingDelay(q, l, state, d, dly) ==
    /\ pc' = [pc EXCEPT ![q] = state]
    /\ timer' = [timer EXCEPT ![q] = d]
    /\ delay' = [delay EXCEPT ![l] = 0]
    /\ UNCHANGED <<tries, fut, calls, query, result, release_at>>

\* The task suspends in an asyncio.sleep of d units
Sleep(q, l, state, d, dly) ==
    /\ pc' = [pc EXCEPT ![q] = state]
    /\ timer' = [timer EXCEPT ![q] = d]
    /\ delay' = [delay EXCEPT ![l] = dly]
    /\ UNCHANGED <<tries, fut, calls, query, result, release_at>>


\* ------------------------------------------------------------- event loop
\* The step of task (or call_later handle) x is the next callback the loop
\* runs: no woken task is queued before it.  Afterwards x is behind every
\* woken task, and the tasks this step woke are behind those woken before.
Ran(x) ==
    /\ \A w \in Req \ {x} : fut[w] = "done" => x \in ahead[w]
    /\ ahead' = [w \in Req |->
                   IF fut'[w] # "done" THEN {}
                   ELSE IF fut[w] = "done"
                        THEN { p \in ahead[w] \ {x} : fut'[p] = "done" => fut[p] = "done" }
                        ELSE Req \ {w, x}]

\* ================================================================ actions

\* A caller starts request q for route rt: get_lock, then `async with lock`
\* (Lock.acquire), then, if the lock was free, the first loop iteration up to
\* its first suspension.
Request(q, rt, ps) ==
    /\ pc[q] = "idle"
    /\ ~control_lock
    /\ params' = [params EXCEPT ![q] = ps]
    /\ LET g == GetLock(q, RouteBucket(rt))
           l == g.lock
       IN /\ route' = [route EXCEPT ![q] = rt]
          /\ lock' = [lock EXCEPT ![q] = l]
          /\ locks' = g.locks
          /\ control_lock' = g.control
          /\ IF CanTake(l)
             THEN /\ locked' = [locked EXCEPT ![l] = TRUE]
                  /\ UNCHANGED waiters
                  /\ Continue(q, l, 0, global_event, delay[l], r[q], fut, "head")
             ELSE /\ waiters' = [waiters EXCEPT ![l] = Append(@, q)]
                  /\ pc' = [pc EXCEPT ![q] = "acquire"]
                  /\ fut' = [fut EXCEPT ![q] = "pending"]
                  /\ UNCHANGED <<locked, tries, timer, calls, query, delay, result, release_at>>
    /\ Ran(q)
    /\ UNCHANGED <<r, global_event, window, cancelled, cooldown, terrs, clean, last, budget>>

\* Lock.acquire resumes after its future got a result: the waiter leaves the
\* queue, sets _locked and enters the loop.
LockGranted(q) ==
    /\ UNCHANGED params
    /\ pc[q] = "acquire"
    /\ fut[q] = "done"
    /\ LET l == lock[q]
       IN /\ waiters' = [waiters EXCEPT ![l] = Without(@, q)]
          /\ locked' = [locked EXCEPT ![l] = TRUE]
          /\ Continue(q, l, 0, global_event, delay[l], r[q], fut, "head")
    /\ Ran(q)
    /\ UNCHANGED <<control_lock, route, lock, r, locks, global_event, window, cancelled, cooldown,
                   terrs, clean, last, budget>>

\* Event.wait resumes after set() gave its future a result; it returns True
\* without looking at the flag again, and the task goes on to the limiter.
GateOpened(q) ==
    /\ UNCHANGED params
    /\ pc[q] = "wait_global"
    /\ fut[q] = "done"
    /\ Continue(q, lock[q], tries[q], global_event, delay[lock[q]], r[q], fut, "throttle")
    /\ Ran(q)
    /\ UNCHANGED <<control_lock, route, lock, r, locks, locked, waiters, global_event, window,
                   cancelled, cooldown, terrs, clean, last, budget>>

\* The sleep of the limiter poll ends (random.uniform(0.01, 0.1): less than a
\* unit) and ratelimiter.test() is asked again.
PollWake(q) ==
    /\ UNCHANGED params
    /\ pc[q] = "poll"
    /\ Continue(q, lock[q], tries[q], global_event, delay[lock[q]], r[q], fut, "throttle")
    /\ Ran(q)
    /\ UNCHANGED <<control_lock, route, lock, r, locks, locked, waiters, global_event, window,
                   cancelled, cooldown, terrs, clean, last, budget>>

\* The transport call of q returns the response rs; the task classifies it.
Respond(q, rs) ==
    /\ UNCHANGED params
    /\ pc[q] = "fetch"
    /\ rs.status \notin 200..299 => budget > 0
    /\ budget' = IF rs.status \in 200..299 THEN budget ELSE budget - 1
    /\ clean' = [clean EXCEPT ![q] = @ /\ rs.status \in 200..299]
    /\ last' = [last EXCEPT ![q] = "resp"]
    /\ LET l == lock[q]
           new == [status |-> rs.status, data |-> rs.data]
           \* if remaining == "0" and r.status != 429: lock.defer_for(delta)
           dly == IF rs.remaining0 /\ rs.status # 429 THEN rs.delta ELSE delay[l]
           retry_after == ToUnits(rs.retry_after)
       IN /\ r' = [r EXCEPT ![q] = new]
          /\ IF rs.status \in 200..299
             THEN /\ Leave(q, l, "returned", [kind |-> "ok", status |-> rs.status, data |-> rs.data],
                           dly, fut)
                  /\ UNCHANGED <<global_event, cooldown>>
             ELSE IF rs.status = 429 /\ rs.retry_after = Missing
             THEN \* retry_after = data["retry_after"] / 1000.0 raises KeyError (TypeError
                  \* when the body is no JSON object) before the headers are looked at
                  /\ Except(q, l, [kind |-> "KeyError", status |-> 0, data |-> "none"],
                            global_event, dly, new, fut)
                  /\ UNCHANGED <<global_event, cooldown>>
             ELSE IF rs.status = 429 /\ ~rs.via
             THEN /\ Except(q, l, [kind |-> "HTTPException", status |-> rs.status, data |-> rs.data],
                            global_event, dly, new, fut)
                  /\ UNCHANGED <<global_event, cooldown>>
             ELSE IF rs.status = 429 /\ rs.global
             THEN /\ global_event' = FALSE
                  /\ cooldown' = Max(cooldown, retry_after + SafetyMargin)
                  /\ Sleep(q, l, "gsleep", retry_after + SafetyMargin, dly)
             ELSE IF rs.status = 429
             THEN /\ Sleep(q, l, "bsleep", retry_after, dly)
                  /\ UNCHANGED <<global_event, cooldown>>
             ELSE IF rs.status \in {500, 502}
             THEN /\ Sleep(q, l, "ssleep", 0, dly)
                  /\ UNCHANGED <<global_event, cooldown>>
             ELSE /\ Except(q, l, [kind |-> Classify(rs.status), status |-> rs.status, data |-> rs.data],
                            global_event, dly, new, fut)
                  /\ UNCHANGED <<global_event, cooldown>>
    /\ Ran(q)
    /\ UNCHANGED <<control_lock, route, lock, locks, locked, waiters, window, cancelled, terrs>>

\* The transport call (or the decoding of its body) raises an error that is
\* not a cancellation; r and data keep the values of the attempt before.
TransportError(q) ==
    /\ UNCHANGED params
    /\ pc[q] = "fetch"
    /\ budget > 0
    /\ budget' = budget - 1
    /\ terrs' = [terrs EXCEPT ![q] = @ + 1]
    /\ last' = [last EXCEPT ![q] = "terr"]
    /\ Except(q, lock[q], [kind |-> "TransportError", status |-> 0, data |-> "none"],
              global_event, delay[lock[q]], r[q], fut)
    /\ Ran(q)
    /\ UNCHANGED <<control_lock, route, lock, r, locks, locked, waiters, global_event, window,
                   cancelled, cooldown, clean>>

EventSetWakesNobody(futs) == futs

\* Event.set gives the future of every task waiting in Event.wait its result
EventSet(futs) == [p \in Req |-> IF pc[p] = "wait_global" THEN "done" ELSE futs[p]]

\* The cooldown sleep of a global 429 ends: global_event.set() wakes the
\* waiters, then `continue`.
GlobalSleepDone(q) ==
    /\ UNCHANGED params
    /\ pc[q] = "gsleep"
    /\ timer[q] = 0
    /\ global_event' = TRUE
    /\ Continue(q, lock[q], tries[q] + 1, TRUE, delay[lock[q]], r[q], EventSet(fut), "head")
    /\ Ran(q)
    /\ UNCHANGED <<control_lock, route, lock, r, locks, locked, waiters, window, cancelled, cooldown,
                   terrs, clean, last, budget>>

\* The shielded sleep of a bucket 429, or the sleep after a 500/502, ends:
\* `continue`.
BackoffDone(q) ==
    /\ UNCHANGED params
    /\ pc[q] \in {"bsleep", "ssleep"}
    /\ timer[q] = 0
    /\ Continue(q, lock[q], tries[q] + 1, global_event, delay[lock[q]], r[q], fut, "head")
    /\ Ran(q)
    /\ UNCHANGED <<control_lock, route, lock, r, locks, locked, waiters, global_event, window,
                   cancelled, cooldown, terrs, clean, last, budget>>

Suspended == {"acquire", "wait_global", "poll", "fetch", "gsleep", "bsleep", "ssleep"}

\* task.cancel() on the task of q: CancelledError is raised at the await the
\* task is suspended in.  In Lock.acquire the waiter leaves the queue and, if
\* the lock is not held, wakes the next waiter; the `async with` body was not
\* entered, so __aexit__ does not run.  Anywhere else the error passes the
\* except clauses of the try (or skips them, at global_event.wait()).
Cancel(q) ==
    /\ UNCHANGED params
    /\ pc[q] \in Suspended
    /\ cancelled' = [cancelled EXCEPT ![q] = TRUE]
    /\ LET l == lock[q]
           exc == [kind |-> "CancelledError", status |-> 0, data |-> "none"]
       IN IF pc[q] = "acquire"
          THEN /\ waiters' = [waiters EXCEPT ![l] = Without(@, q)]
               /\ fut' = [(IF locked[l] THEN fut ELSE WakeFirst(Without(waiters[l], q), fut))
                            EXCEPT ![q] = "none"]
               /\ pc' = [pc EXCEPT ![q] = "cancelled"]
               /\ result' = [result EXCEPT ![q] = exc]
               /\ UNCHANGED <<tries, timer, calls, query, delay, release_at>>
          ELSE /\ IF pc[q] = "wait_global"
                  THEN Leave(q, l, "cancelled", exc, delay[l], fut)
                  ELSE Except(q, l, exc, global_event, delay[l], r[q], fut)
               /\ UNCHANGED waiters
    /\ Ran(q)
    /\ UNCHANGED <<control_lock, route, lock, r, locks, locked, global_event, window, cooldown,
                   terrs, clean, last, budget>>

\* The call_later handle of q's __aexit__ fires: Lock.release() clears
\* _locked and wakes the first waiter (on a lock that is not held it raises
\* RuntimeError inside the callback, which changes nothing).
Release(q) ==
    /\ UNCHANGED params
    /\ release_at[q] = 0
    /\ release_at' = [release_at EXCEPT ![q] = NoTimer]
    /\ LET l == lock[q]
       IN IF locked[l]
          THEN /\ locked' = [locked EXCEPT ![l] = FALSE]
               /\ fut' = WakeFirst(waiters[l], fut)
          ELSE UNCHANGED <<locked, fut>>
    /\ Ran(q)
    /\ UNCHANGED <<control_lock, pc, route, lock, tries, timer, r, result, locks, waiters, delay,
                   global_event, window, calls, query, cancelled, cooldown, terrs, clean, last, budget>>

\* Some other user of the client's Ratelimiter calls hit(): an entry enters
\* the moving window if a slot is free.
Hit ==
    /\ UNCHANGED params
    /\ LimiterTest
    /\ window' = [window EXCEPT ![WindowLen] = @ + 1]
    /\ UNCHANGED <<control_lock, ahead, pc, route, lock, tries, timer, fut, r, result, locks, locked, waiters,
                   delay, release_at, global_event, calls, query, cancelled, cooldown,
                   terrs, clean, last, budget>>

Dec(n) == IF n > 0 THEN n - 1 ELSE n

\* Half a second passes: every running sleep and call_later handle has one
\* unit less to go, and the oldest entries leave the limiter window.
Tick ==
    /\ UNCHANGED params
    /\ \/ \E q \in Req : timer[q] > 0 \/ release_at[q] > 0
       \/ WindowCount > 0
       \/ cooldown > 0
       \/ sent > 0
       \/ \E l \in Req : backoff[l] > 0 \/ hold[l] > 0
    /\ timer' = [q \in Req |-> Dec(timer[q])]
    /\ release_at' = [q \in Req |-> Dec(release_at[q])]
    /\ window' = [k \in 1..WindowLen |-> IF k < WindowLen THEN window[k + 1] ELSE 0]
    /\ cooldown' = Dec(cooldown)
    /\ UNCHANGED <<control_lock, ahead, pc, route, lock, tries, fut, r, result, locks, locked, waiters,
                   delay, global_event, calls, query, cancelled, terrs, clean, last, budget>>

\* A step whose history is not observed
Unseen == UNCHANGED observed /\ UNCHANGED caller /\ UNCHANGED via_header /\ UNCHANGED fuzzy

Next ==
    \/ \E q \in Req : \E rt \in CallerRoutes(q) : Request(q, rt, NoParams) /\ Unseen
    \/ \E q \in Req : LockGranted(q) /\ Unseen
    \/ \E q \in Req : GateOpened(q) /\ Unseen
    \/ \E q \in Req : PollWake(q) /\ Unseen
    \/ \E q \in Req, rs \in Responses : Respond(q, rs) /\ Unseen
    \/ \E q \in Req : TransportError(q) /\ Unseen
    \/ \E q \in Req : GlobalSleepDone(q) /\ Unseen
    \/ \E q \in Req : BackoffDone(q) /\ Unseen
    \/ \E q \in Req : Cancel(q) /\ Unseen
    \/ \E q \in Req : Release(q) /\ Unseen
    \/ Hit /\ Unseen
    \/ Tick /\ Unseen

Spec == Init /\ [][Next]_vars

\* The scheduling of the event loop: a task that can be resumed is resumed,
\* a call_later handle that is due fires, the transport call ends, time
\* passes.  Callers (Request, Cancel, Hit) promise nothing.
TaskStep(q) ==
    \/ LockGranted(q) \/ GateOpened(q) \/ PollWake(q) \/ GlobalSleepDone(q) \/ BackoffDone(q)
    \/ \E rs \in Responses : Respond(q, rs)
    \/ TransportError(q)

FairSpec ==
    /\ Spec
    /\ WF_vars(Tick /\ Unseen)
    /\ \A q \in Req : /\ WF_vars(TaskStep(q) /\ Unseen)
                       /\ WF_vars(Release(q) /\ Unseen)

\* ---- one call of HTTPClient.request on an otherwise idle client, tried on
\* ---- every response and with a transport error possible on every attempt
InitOne == InitWith(MaxTries)

NextOne ==
    \/ \E rt \in Routes : Request(1, rt, NoParams) /\ Unseen
    \/ PollWake(1) /\ Unseen
    \/ \E rs \in AllResponses : Respond(1, rs) /\ Unseen
    \/ TransportError(1) /\ Unseen
    \/ GlobalSleepDone(1) /\ Unseen
    \/ BackoffDone(1) /\ Unseen
    \/ Cancel(1) /\ Unseen
    \/ Release(1) /\ Unseen
    \/ Hit /\ Unseen
    \/ Tick /\ Unseen

SpecOne == InitOne /\ [][NextOne]_vars

\* ---- the client with its history observed: every step of a request also
\* ---- records what the step did to the order of arrival, to the quiet time
\* ---- its bucket owes and to the number of calls sent
\* What a response asks of its bucket: the reset delta of a response with
\* remaining = 0 that is not a 429, the retry_after of a bucket-scoped 429
Deferral(rs, old) == IF rs.remaining0 /\ rs.status # 429 THEN rs.delta ELSE old

RetryAfter(rs) == IF rs.status = 429 /\ rs.via /\ ~rs.global THEN ToUnits(rs.retry_after) ELSE 0

\* A step of request q, whose latest deferral is then o and which saw a
\* bucket 429 asking for bk units
Observe(q, o, bk) ==
    /\ arrival' = IF pc[q] = "idle" THEN Append(arrival, q) ELSE arrival
    /\ owed' = [owed EXCEPT ![q] = o]
    /\ backoff' = [backoff EXCEPT ![lock'[q]] = Max(@, bk)]
    /\ hold' = IF release_at[q] = NoTimer /\ release_at'[q] # NoTimer
               THEN [hold EXCEPT ![lock[q]] = Max(@, o)]
               ELSE hold
    /\ sent' = sent + calls'[q] - calls[q]
    /\ UNCHANGED caller
    /\ UNCHANGED via_header /\ UNCHANGED fuzzy

ObserveTick ==
    /\ backoff' = [l \in Req |-> Dec(backoff[l])]
    /\ hold' = [l \in Req |-> Dec(hold[l])]
    /\ sent' = 0
    /\ UNCHANGED <<arrival, owed>>
    /\ UNCHANGED caller
    /\ UNCHANGED via_header /\ UNCHANGED fuzzy

Seen(q) == Observe(q, owed[q], 0)

\* The responses observed requests are tried on: those of Spec, and the
\* remaining = 0 header on a 500, on a bucket 429 and with a delta of zero
ObservedResponses ==
    Responses
    \cup { Resp(200, "d1", TRUE, TRUE, 0, 0, FALSE), Resp(500, "d1", TRUE, TRUE, MaxDelta, 0, FALSE) }
    \cup { Resp(429, "d1", TRUE, TRUE, MaxDelta, ms, FALSE) : ms \in RetryAfterMs }

\* The requests made while the history is observed
Watched == 1..NumWatched

NextObserved ==
    \/ \E q \in Watched : \E rt \in CallerRoutes(q) : Request(q, rt, NoParams) /\ Seen(q)
    \/ \E q \in Watched : LockGranted(q) /\ Seen(q)
    \/ \E q \in Watched : GateOpened(q) /\ Seen(q)
    \/ \E q \in Watched : PollWake(q) /\ Seen(q)
    \/ \E q \in Watched, rs \in ObservedResponses :
          Respond(q, rs) /\ Observe(q, Deferral(rs, owed[q]), RetryAfter(rs))
    \/ \E q \in Watched : TransportError(q) /\ Seen(q)
    \/ \E q \in Watched : GlobalSleepDone(q) /\ Seen(q)
    \/ \E q \in Watched : BackoffDone(q) /\ Seen(q)
    \/ \E q \in Watched : Cancel(q) /\ Seen(q)
    \/ \E q \in Watched : Release(q) /\ Seen(q)
    \/ Hit /\ Unseen
    \/ Tick /\ ObserveTick

SpecObserved == Init /\ [][NextObserved]_vars

\* ---- the queue of a bucket lock: every request of the client, each
\* ---- answered 2xx (with or without a deferral) or 500, or cancelled
QueueResponses == { rs \in Responses : rs.status # 429 }

NextQueue ==
    \/ \E q \in Req : \E rt \in CallerRoutes(q) : Request(q, rt, NoParams) /\ Seen(q)
    \/ \E q \in Req : LockGranted(q) /\ Seen(q)
    \/ \E q \in Req, rs \in QueueResponses :
          Respond(q, rs) /\ Observe(q, Deferral(rs, owed[q]), RetryAfter(rs))
    \/ \E q \in Req : BackoffDone(q) /\ Seen(q)
    \/ \E q \in Req : Cancel(q) /\ Seen(q)
    \/ \E q \in Req : Release(q) /\ Seen(q)
    \/ Tick /\ ObserveTick

SpecQueue == Init /\ [][NextQueue]_vars

\* ---- the ways out of `async with lock:`: a holder and a waiter, the holder
\* ---- tried on every exit path of the block (return, classified error,
\* ---- transport error re-raised, retries exhausted, cancellation)
ExitResponses ==
    { Resp(st, "d1", TRUE, FALSE, 0, 0, FALSE) : st \in {200, 403, 500} }
    \cup { Resp(200, "d1", TRUE, TRUE, MaxDelta, 0, FALSE),
           Resp(429, "d1", TRUE, FALSE, 0, 500, FALSE) }

ExitStep(q) ==
    \/ LockGranted(q)
    \/ \E rs \in ExitResponses : Respond(q, rs)
    \/ TransportError(q)
    \/ BackoffDone(q)

NextExit ==
    \/ \E q \in Watched : \E rt \in CallerRoutes(q) : Request(q, rt, NoParams) /\ Unseen
    \/ \E q \in Watched : LockGranted(q) /\ Unseen
    \/ \E q \in Watched, rs \in ExitResponses : Respond(q, rs) /\ Unseen
    \/ \E q \in Watched : TransportError(q) /\ Unseen
    \/ \E q \in Watched : BackoffDone(q) /\ Unseen
    \/ \E q \in Watched : Cancel(q) /\ Unseen
    \/ \E q \in Watched : Release(q) /\ Unseen
    \/ Tick /\ Unseen

SpecExit == InitOne /\ [][NextExit]_vars

\* The event loop resumes a task that can run, fires a handle that is due,
\* the transport call ends, time passes; callers promise nothing.
FairSpecExit ==
    /\ SpecExit
    /\ WF_vars(Tick /\ Unseen)
    /\ \A q \in Watched : /\ WF_vars(ExitStep(q) /\ Unseen)
                           /\ WF_vars(Release(q) /\ Unseen)

\* ---- the callers of request: static_login, get_gateway, get_bot_gateway
\* ---- and get_guilds, each on the route and with the params it passes
Ended == {"returned", "raised", "cancelled"}

Wrappers == {"static_login", "get_gateway", "get_bot_gateway", "get_guilds"}

WrapperRoute(f) ==
    CASE f = "static_login" -> LoginRoute
      [] f = "get_gateway" -> GatewayRoute
      [] f = "get_bot_gateway" -> BotGatewayRoute
      [] f = "get_guilds" -> GuildsRoute

\* params = {"limit": limit} of get_guilds; the others pass no params
WrapperParams(f) == IF f = "get_guilds" THEN << <<"limit", 1>> >> ELSE NoParams

\* `except HTTPException`: the errors request raises from a response
IsHTTPException(kind) ==
    kind \in {"HTTPException", "Forbidden", "NotFound", "DiscordServerError"}

\* LoginFailure("Improper token has been passed.") and GatewayNotFound() are
\* constructed from a message only
LoginFailure == [kind |-> "LoginFailure", status |-> 0, data |-> "none"]
GatewayNotFound == [kind |-> "GatewayNotFound", status |-> 0, data |-> "none"]

\* value.format(data["url"], encoding, v) with the defaults json, 6, zlib
GatewayUrl(data) == data \o "?encoding=json&v=6&compress=zlib-stream"

\* static_login after `await self.request(...)` ended with res
StaticLoginKeepsToken(q, res) ==
    /\ outcome' = [outcome EXCEPT ![q] = IF IsHTTPException(res.kind) /\ res.status = 401
                                          THEN LoginFailure ELSE res]
    /\ UNCHANGED <<token, bot_token>>

StaticLoginEnds(q, res) ==
    IF IsHTTPException(res.kind)
    THEN /\ token' = saved[1]                    \* self._token(old_token, bot=old_bot)
         /\ bot_token' = saved[2]
         /\ outcome' = [outcome EXCEPT ![q] = IF res.status = 401 THEN LoginFailure ELSE res]
    ELSE /\ outcome' = [outcome EXCEPT ![q] = res]
         /\ UNCHANGED <<token, bot_token>>

\* get_gateway and get_bot_gateway after `await self.request(...)` ended
GatewayEnds(q, res) ==
    /\ outcome' = [outcome EXCEPT ![q] =
                      IF IsHTTPException(res.kind) THEN GatewayNotFound
                      ELSE IF res.kind = "ok" THEN [res EXCEPT !.data = GatewayUrl(@)]
                      ELSE res]
    /\ UNCHANGED <<token, bot_token>>

\* A step of the request of q: when it ends the request, the caller's code
\* after the await runs in the same resumption of the task
Returns(q) ==
    /\ IF pc[q] \notin Ended /\ pc'[q] \in Ended
       THEN CASE api[q] = "static_login" -> StaticLoginEnds(q, result'[q])
              [] api[q] \in {"get_gateway", "get_bot_gateway"} -> GatewayEnds(q, result'[q])
              [] OTHER -> /\ outcome' = [outcome EXCEPT ![q] = result'[q]]
                          /\ UNCHANGED <<token, bot_token>>
       ELSE UNCHANGED <<token, bot_token, outcome>>
    /\ UNCHANGED <<api, saved>>
    /\ UNCHANGED observed
    /\ UNCHANGED via_header /\ UNCHANGED fuzzy

\* Request q is the call of wrapper f; static_login(q, bot=(q = 1)) is called
\* while no other static_login is in progress
Call(q, f) ==
    /\ Request(q, WrapperRoute(f), WrapperParams(f))
    /\ api' = [api EXCEPT ![q] = f]
    /\ IF f = "static_login"
       THEN /\ \A p \in Req : api[p] = "static_login" => outcome[p] # NoResult
            /\ saved' = <<token, bot_token>>     \* old_token, old_bot = ...
            /\ token' = q                        \* self._token(token, bot=bot)
            /\ bot_token' = (q = 1)
       ELSE UNCHANGED <<saved, token, bot_token>>
    /\ UNCHANGED outcome
    /\ UNCHANGED observed
    /\ UNCHANGED via_header /\ UNCHANGED fuzzy

\* answers to the wrappers' requests: success with and without a deferral of
\* the release, a rejected token, a missing resource, a server error
ApiResponses ==
    { Resp(st, "d1", TRUE, FALSE, 0, 0, FALSE) : st \in {200, 401, 404, 500} }
    \cup { Resp(200, "d1", TRUE, TRUE, MaxDelta, 0, FALSE) }

NextApi ==
    \/ \E q \in Watched, f \in Wrappers : Call(q, f)
    \/ \E q \in Watched : LockGranted(q) /\ Returns(q)
    \/ \E q \in Watched, rs \in ApiResponses : Respond(q, rs) /\ Returns(q)
    \/ \E q \in Watched : TransportError(q) /\ Returns(q)
    \/ \E q \in Watched : BackoffDone(q) /\ Returns(q)
    \/ \E q \in Watched : Release(q) /\ Unseen
    \/ Tick /\ Unseen

SpecApi == InitOne /\ [][NextApi]_vars


\* ---- Route objects as callers construct them: any method, any of the path
\* ---- templates, and keyword parameters that cover the fields of the
\* ---- template and may hold more (str.format ignores the unused ones)
Methods == {"GET", "POST"}

Templates ==
    {"/channels/{channel_id}/messages", "/channels/{channel_id}/messages/{message_id}",
     "/guilds/{guild_id}/channels", "/guilds/{guild_id}/members/{user_id}", "/gateway"}

ParameterNames == {"channel_id", "guild_id", "message_id", "user_id"}

RouteIds == {1, 2, 123}

Fields(path) ==
    LET tokens == Tokens(path)
    IN { tokens[i].field : i \in { j \in DOMAIN tokens : "field" \in DOMAIN tokens[j] } }

RouteParameters(path) ==
    UNION { [names -> RouteIds] : names \in { d \in SUBSET ParameterNames : Fields(path) \subseteq d } }

\* route = Route(method, path, **parameters), kept in the slot of request q
NewRoute(q, method, path, parameters) ==
    /\ pc[q] = "idle"
    /\ route' = [route EXCEPT ![q] = MkRoute(method, path, parameters)]
    /\ UNCHANGED <<pc, lock, tries, timer, fut, r, result, locks, locked, waiters, delay,
                   release_at, global_event, window, ahead, calls, cancelled, cooldown,
                   terrs, clean, last, budget, control_lock, params, query>>

\* the templates with a {guild_id} field
GuildTemplates == { path \in Templates : "guild_id" \in Fields(path) }

\* the URLs of the guild templates with 123 in the place of {guild_id}
GuildUrls ==
    {BASE \o "/guilds/123/channels"}
    \cup { BASE \o "/guilds/123/members/" \o Str(u) : u \in RouteIds }

NextRoute ==
    \E method \in Methods, path \in Templates :
        \E parameters \in RouteParameters(path) : NewRoute(1, method, path, parameters) /\ Unseen

SpecRoute == Init /\ [][NextRoute]_vars

\* ---- requests that nobody cancels, on one bucket or on two, with every
\* ---- kind of retry: transport errors, 500s, bucket and global 429s, and
\* ---- deferred releases; no other user of the limiter
InitLive == InitWith(MaxTries * NumWatched)

LiveResponses ==
    { Resp(st, "d1", TRUE, FALSE, 0, 0, FALSE) : st \in {200, 500} }
    \cup { Resp(200, "d1", TRUE, TRUE, MaxDelta, 0, FALSE) }
    \cup { Resp(429, "d1", TRUE, FALSE, 0, 500, g) : g \in BOOLEAN }

LiveStep(q) ==
    \/ LockGranted(q) \/ GateOpened(q) \/ GlobalSleepDone(q) \/ BackoffDone(q)
    \/ \E rs \in LiveResponses : Respond(q, rs)
    \/ TransportError(q)

NextLive ==
    \/ \E q \in Watched : \E rt \in CallerRoutes(q) : Request(q, rt, NoParams) /\ Unseen
    \/ \E q \in Watched : LockGranted(q) /\ Unseen
    \/ \E q \in Watched : GateOpened(q) /\ Unseen
    \/ \E q \in Watched, rs \in LiveResponses : Respond(q, rs) /\ Unseen
    \/ \E q \in Watched : TransportError(q) /\ Unseen
    \/ \E q \in Watched : GlobalSleepDone(q) /\ Unseen
    \/ \E q \in Watched : BackoffDone(q) /\ Unseen
    \/ \E q \in Watched : Release(q) /\ Unseen
    \/ Tick /\ Unseen

SpecLive == InitLive /\ [][NextLive]_vars

\* The event loop resumes a task that can run and fires a handle that is
\* due, every transport call ends, time passes.
FairSpecLive ==
    /\ SpecLive
    /\ WF_vars(Tick /\ Unseen)
    /\ \A q \in Watched : /\ WF_vars(LiveStep(q) /\ Unseen)
                           /\ WF_vars(Release(q) /\ Unseen)

\* ---- requests answered by something in front of the API: every 429 comes
\* ---- without a Via header, its body with or without retry_after and global
ViaResponses ==
    { Resp(200, "d1", TRUE, FALSE, 0, 0, FALSE) }
    \cup { Resp(429, "d2", FALSE, FALSE, 0, ms, g) : ms \in {500, Missing}, g \in BOOLEAN }

\* A response reaches request q with (v) or without a Via header
Hears(q, v) ==
    /\ via_header' = [via_header EXCEPT ![q] = v]
    /\ UNCHANGED observed
    /\ UNCHANGED caller
    /\ UNCHANGED fuzzy

NextVia ==
    \/ \E q \in Watched : \E rt \in CallerRoutes(q) : Request(q, rt, NoParams) /\ Unseen
    \/ \E q \in Watched : LockGranted(q) /\ Unseen
    \/ \E q \in Watched, rs \in ViaResponses : Respond(q, rs) /\ Hears(q, rs.via)
    \/ \E q \in Watched : Release(q) /\ Unseen

SpecVia == InitOne /\ [][NextVia]_vars

\* ---- Typing contexts (context_managers.py).  The task of a context takes
\* ---- the slot of a request: pc is where do_typing is suspended, lock the
\* ---- typing lock of its channel, fut the future of Lock.acquire, calls the
\* ---- typing requests do_typing has started, cancelled that the context was
\* ---- left; locked and waiters are the asyncio.Lock state of the typing locks.
\* http.typing_locks[channel.id]: one lock per channel
TypingLock(channel_id) == channel_id

TypingChannels(q) == {1, q}

\* what a Typing context leaves alone
TypingFrame ==
    /\ UNCHANGED <<route, tries, timer, r, locks, delay, release_at, global_event, window, ahead,
                   cooldown, terrs, clean, last, budget, control_lock, params, query>>
    /\ Unseen

LockReleaseSkipped(l, lk, futs) == [locked |-> lk, fut |-> futs]

\* lock.release(): the lock is unlocked and the first waiter is woken
LockRelease(l, lk, futs) ==
    [locked |-> [lk EXCEPT ![l] = FALSE], fut |-> WakeFirst(waiters[l], futs)]

\* do_typing from the head of `while True`, the lock state being lk, ws, futs:
\* past the deadline it returns; else lock.acquire() takes the lock at once
\* and typing(channel.id) is awaited, or the task waits for the lock
DoTyping(q, l, lk, ws, futs, expired) ==
    IF expired \/ calls[q] >= MaxSends
    THEN /\ pc' = [pc EXCEPT ![q] = "returned"]
         /\ locked' = lk /\ waiters' = ws /\ fut' = futs
         /\ UNCHANGED calls
    ELSE IF ~lk[l] /\ ws[l] = <<>>
    THEN /\ pc' = [pc EXCEPT ![q] = "typing"]
         /\ locked' = [lk EXCEPT ![l] = TRUE]
         /\ waiters' = ws /\ fut' = futs
         /\ calls' = [calls EXCEPT ![q] = @ + 1]
    ELSE /\ pc' = [pc EXCEPT ![q] = "acquire"]
         /\ waiters' = [ws EXCEPT ![l] = Append(@, q)]
         /\ fut' = [futs EXCEPT ![q] = "pending"]
         /\ locked' = lk
         /\ UNCHANGED calls

\* __enter__ creates the task; __aenter__ first awaits a typing request of
\* its own, outside the lock
Enter(q, channel_id, async) ==
    /\ pc[q] = "idle"
    /\ pc' = [pc EXCEPT ![q] = IF async THEN "presend" ELSE "created"]
    /\ lock' = [lock EXCEPT ![q] = TypingLock(channel_id)]
    /\ UNCHANGED <<fut, locked, waiters, calls, cancelled, result>>
    /\ TypingFrame

\* the typing request of __aenter__ ends: the task is created, or the error
\* leaves the `async with` statement
Present(q, ok) ==
    /\ pc[q] = "presend"
    /\ pc' = [pc EXCEPT ![q] = IF ok THEN "created" ELSE "raised"]
    /\ UNCHANGED <<lock, fut, locked, waiters, calls, cancelled, result>>
    /\ TypingFrame

\* the loop runs the new task for the first time
Start(q, expired) ==
    /\ pc[q] = "created"
    /\ DoTyping(q, lock[q], locked, waiters, fut, expired)
    /\ UNCHANGED <<lock, cancelled, result>>
    /\ TypingFrame

\* Lock.acquire resumes with the lock: typing(channel.id) is awaited
Granted(q) ==
    /\ pc[q] = "acquire"
    /\ fut[q] = "done"
    /\ pc' = [pc EXCEPT ![q] = "typing"]
    /\ waiters' = [waiters EXCEPT ![lock[q]] = Without(@, q)]
    /\ locked' = [locked EXCEPT ![lock[q]] = TRUE]
    /\ fut' = [fut EXCEPT ![q] = "none"]
    /\ calls' = [calls EXCEPT ![q] = @ + 1]
    /\ UNCHANGED <<lock, cancelled, result>>
    /\ TypingFrame

\* asyncio.timeout(0.25) expires in Lock.acquire: the waiter leaves the queue,
\* wakes the next one if the lock is free, and TimeoutError sends the task
\* back to the head of the loop
TimedOut(q, expired) ==
    /\ pc[q] = "acquire"
    /\ LET l == lock[q]
           ws == [waiters EXCEPT ![l] = Without(@, q)]
           mine == [fut EXCEPT ![q] = "none"]
           futs == IF locked[l] THEN mine ELSE WakeFirst(ws[l], mine)
       IN DoTyping(q, l, locked, ws, futs, expired)
    /\ UNCHANGED <<lock, cancelled, result>>
    /\ TypingFrame

\* typing(channel.id) returns: asyncio.sleep(4.2)
SendDone(q) ==
    /\ pc[q] = "typing"
    /\ pc' = [pc EXCEPT ![q] = "sleep"]
    /\ UNCHANGED <<lock, fut, locked, waiters, calls, cancelled, result>>
    /\ TypingFrame

\* typing(channel.id) raises: finally releases the lock and the task ends
SendRaises(q) ==
    /\ pc[q] = "typing"
    /\ pc' = [pc EXCEPT ![q] = "raised"]
    /\ result' = [result EXCEPT ![q] = [kind |-> "HTTPException", status |-> 0, data |-> "none"]]
    /\ LET rel == LockRelease(lock[q], locked, fut)
       IN locked' = rel.locked /\ fut' = rel.fut
    /\ UNCHANGED <<lock, waiters, calls, cancelled>>
    /\ TypingFrame

\* the sleep ends: finally releases the lock and the loop goes round
SleepDone(q, expired) ==
    /\ pc[q] = "sleep"
    /\ LET rel == LockRelease(lock[q], locked, fut)
       IN DoTyping(q, lock[q], rel.locked, waiters, rel.fut, expired)
    /\ UNCHANGED <<lock, cancelled, result>>
    /\ TypingFrame

\* __exit__ / __aexit__: self.task.cancel().  A task that has not ended gets
\* CancelledError where it is suspended: in Lock.acquire the waiter leaves the
\* queue and wakes the next one if the lock is free, in the send or the sleep
\* finally releases the lock.
Exit(q) ==
    /\ pc[q] \in {"created", "acquire", "typing", "sleep"} \cup Ended
    /\ ~cancelled[q]
    /\ cancelled' = [cancelled EXCEPT ![q] = TRUE]
    /\ LET l == lock[q]
           ws == [waiters EXCEPT ![l] = Without(@, q)]
           mine == [fut EXCEPT ![q] = "none"]
       IN IF pc[q] \in Ended
          THEN UNCHANGED <<pc, waiters, locked, fut>>
          ELSE /\ pc' = [pc EXCEPT ![q] = "cancelled"]
               /\ waiters' = ws
               /\ IF pc[q] \in {"typing", "sleep"}
                  THEN LET rel == LockRelease(l, locked, mine)
                       IN locked' = rel.locked /\ fut' = rel.fut
                  ELSE /\ fut' = IF locked[l] \/ pc[q] = "created" THEN mine
                                 ELSE WakeFirst(ws[l], mine)
                       /\ UNCHANGED locked
    /\ UNCHANGED <<lock, calls, result>>
    /\ TypingFrame

NextTyping ==
    \/ \E q \in Req : \E c \in TypingChannels(q) : \E async \in BOOLEAN : Enter(q, c, async)
    \/ \E q \in Req, ok \in BOOLEAN : Present(q, ok)
    \/ \E q \in Req, expired \in BOOLEAN : Start(q, expired)
    \/ \E q \in Req : Granted(q)
    \/ \E q \in Req, expired \in BOOLEAN : TimedOut(q, expired)
    \/ \E q \in Req : SendDone(q)
    \/ \E q \in Req : SendRaises(q)
    \/ \E q \in Req, expired \in BOOLEAN : SleepDone(q, expired)
    \/ \E q \in Req : Exit(q)

SpecTyping == Init /\ [][NextTyping]_vars

\* ---- fuzz.extract (fuzz.py).  A string is the sequence of its characters.
Alphabet == {"a", "b"}

Words == UNION { [1..n -> Alphabet] : n \in 1..MaxWord }


\* str().join(str(x) for x in choices): the choices end to end, nothing between
RECURSIVE Join(_)
Join(choices) ==
    IF choices = <<>> THEN <<>> ELSE Head(choices) \o Join(Tail(choices))

\* the queries and the lists of choices that extract is called with
Queries == [1..MaxWord -> Alphabet]

ChoiceLists ==
    { choices \in UNION { [1..n -> Words] : n \in 1..MaxChoices } : Len(Join(choices)) <= MaxJoined }

\* xxh3_64_hexdigest(text): equal texts have equal digests; the digest stands
\* for its text, so that no two texts of the model collide by the hash
Digest(text) == text

\* key = f"search_extract:{digest of f'{str(query)}:{[joined choices]}'}";
\* the f-string prints the one-element list as ['...']
Key(qry, choices) ==
    <<"search_extract:">> \o Digest(qry \o <<":", "[", "'">> \o Join(choices) \o <<"'", "]">>)

\* the longest common subsequence, on which the Indel similarity rests
RECURSIVE LCS(_, _)
LCS(s, t) ==
    IF s = <<>> \/ t = <<>> THEN 0
    ELSE IF Head(s) = Head(t) THEN 1 + LCS(Tail(s), Tail(t))
    ELSE Max(LCS(Tail(s), t), LCS(s, Tail(t)))

\* scorer=ratio: the normalised Indel similarity in whole percent
Ratio(s, t) ==
    IF Len(s) + Len(t) = 0 THEN 100 ELSE (200 * LCS(s, t)) \div (Len(s) + Len(t))

ScoreCutoff == 80

\* no match: None
NoMatch == <<>>

\* do_extract: extractOne(query, choices, scorer=ratio, score_cutoff=80), the
\* first of the best choices as (choice, score, index), None below the cutoff
DoExtract(qry, choices) ==
    LET score == [i \in 1..Len(choices) |-> Ratio(qry, choices[i])]
        good == {i \in 1..Len(choices) : score[i] >= ScoreCutoff}
    IN IF good = {} THEN NoMatch
       ELSE LET best == CHOOSE i \in good :
                            \A j \in good : score[i] > score[j] \/ (score[i] = score[j] /\ i <= j)
            IN <<choices[best], score[best], best - 1>>

\* msgpack.packb / msgpack.unpackb: None is nil, a tuple an array, and an
\* array comes back as a list
Packb(match) ==
    IF match = NoMatch THEN [type |-> "nil", items |-> <<>>]
    ELSE [type |-> "array", items |-> match]

Unpackb(bytes) == IF bytes.type = "nil" THEN NoMatch ELSE bytes.items

\* redis.get(key): None when the key has no entry
Absent == [type |-> "none", items |-> <<>>]

RedisGet(store, key) ==
    IF \E e \in store : e.key = key
    THEN (CHOOSE e \in store : e.key = key).value
    ELSE Absent

\* redis.set(key, value, ex=3600)
RedisSet(store, key, value) ==
    {e \in store : e.key # key} \cup {[key |-> key, value |-> value]}

\* `if not cached`: None and empty bytes
NotCached(bytes) == bytes.type = "none"

\* what a call of extract leaves alone
FuzzFrame ==
    /\ UNCHANGED <<pc, route, lock, tries, timer, fut, r, result, locks, locked, waiters,
                   delay, release_at, global_event, window, ahead, calls, cancelled, cooldown,
                   terrs, clean, last, budget, control_lock, params, query>>
    /\ UNCHANGED observed
    /\ UNCHANGED caller
    /\ UNCHANGED via_header

\* extract(query, choices) is called: the key is computed and the call waits
\* for the lock of the key
Extract(c, qry, choices) ==
    /\ extracting[c].pc = "idle"
    /\ extracting' = [extracting EXCEPT ![c] =
           [pc |-> "get_lock", query |-> qry, choices |-> choices,
            key |-> Key(qry, choices), cached |-> Absent]]
    /\ UNCHANGED <<redis, redis_locks>>
    /\ FuzzFrame

\* async with redis.get_lock(key, timeout=25): the lock is free and taken
LockTaken(c) ==
    /\ extracting[c].pc = "get_lock"
    /\ extracting[c].key \notin redis_locks
    /\ redis_locks' = redis_locks \cup {extracting[c].key}
    /\ extracting' = [extracting EXCEPT ![c].pc = "get"]
    /\ UNCHANGED redis
    /\ FuzzFrame

\* cached = await redis.get(key): without an entry do_extract is started,
\* with one the call returns the unpacked entry and releases the lock
Got(c) ==
    /\ extracting[c].pc = "get"
    /\ LET cached == RedisGet(redis, extracting[c].key)
       IN IF NotCached(cached)
          THEN /\ extracting' = [extracting EXCEPT ![c].pc = "do_extract"]
               /\ UNCHANGED redis_locks
          ELSE /\ extracting' = [extracting EXCEPT ![c].pc = "returned",
                                                   ![c].cached = Unpackb(cached)]
               /\ redis_locks' = redis_locks \ {extracting[c].key}
    /\ UNCHANGED redis
    /\ FuzzFrame

\* cached = await do_extract(query, choices); redis.set is awaited
Computed(c) ==
    /\ extracting[c].pc = "do_extract"
    /\ extracting' = [extracting EXCEPT ![c].pc = "set",
                          ![c].cached = DoExtract(extracting[c].query, extracting[c].choices)]
    /\ UNCHANGED <<redis, redis_locks>>
    /\ FuzzFrame

\* redis.set(key, msgpack.packb(cached), ex=3600) returns; return cached
Stored(c) ==
    /\ extracting[c].pc = "set"
    /\ redis' = RedisSet(redis, extracting[c].key, Packb(extracting[c].cached))
    /\ redis_locks' = redis_locks \ {extracting[c].key}
    /\ extracting' = [extracting EXCEPT ![c].pc = "returned"]
    /\ FuzzFrame

\* asyncio.timeout(30) expires at an await: TimeoutError leaves the call, the
\* lock is released if held; a set that was on its way has or has not been done
TimesOut(c, stored) ==
    /\ extracting[c].pc \in {"get_lock", "get", "do_extract", "set"}
    /\ extracting' = [extracting EXCEPT ![c].pc = "raised", ![c].cached = Absent]
    /\ redis_locks' = IF extracting[c].pc = "get_lock" THEN redis_locks
                      ELSE redis_locks \ {extracting[c].key}
    /\ redis' = IF extracting[c].pc = "set" /\ stored
                THEN RedisSet(redis, extracting[c].key, Packb(extracting[c].cached))
                ELSE redis
    /\ FuzzFrame

\* ex=3600: the entry expires
Expires(e) ==
    /\ e \in redis
    /\ redis' = redis \ {e}
    /\ UNCHANGED <<redis_locks, extracting>>
    /\ FuzzFrame

NextFuzz ==
    \/ \E c \in Watched, qry \in Queries, choices \in ChoiceLists : Extract(c, qry, choices)
    \/ \E c \in Watched : LockTaken(c)
    \/ \E c \in Watched : Got(c)
    \/ \E c \in Watched : Computed(c)
    \/ \E c \in Watched : Stored(c)
    \/ \E c \in Watched, stored \in BOOLEAN : TimesOut(c, stored)
    \/ \E e \in redis : Expires(e)

SpecFuzz == Init /\ [][NextFuzz]_vars

\* ================================================================= claims
InFlight(b) == { q \in Req : pc[q] = "fetch" /\ RouteBucket(route[q]) = b }

\* C1: for every non-empty bucket key at most one request is inside its
\* transport call, whatever the interleaving, cancellations and deferred
\* releases.
MutualExclusion ==
    \A b \in BucketKeys : ~Falsy(b) => Cardinality(InFlight(b)) <= 1

\* a request is in its transport call after an earlier holder of the same
\* lock was cancelled mid-request, while a third one waits for the lock
MutualExclusionWitness ==
    \E p, q, w \in Req :
        /\ p # q /\ lock[p] = lock[q] /\ lock[w] = lock[q]
        /\ pc[p] = "cancelled" /\ calls[p] > 0
        /\ pc[q] = "fetch"
        /\ pc[w] = "acquire"

\* C2: a request starts a transport call only while the Global Gate is open.
SendOnlyWhenGateOpen ==
    [][\A q \in Req : calls'[q] > calls[q] => global_event']_vars

\* C3: of the requests that receive a global 429 for one lockout only one
\* runs the clear-sleep-set cycle; no second request is in the cooldown
\* sleep at the same time.
OneSleepCycle ==
    Cardinality({ q \in Req : pc[q] = "gsleep" }) <= 1

\* C4: the gate stays closed until retry_after + 0.5 s have passed since any
\* global 429 was observed.
GateClosedForCooldown ==
    cooldown > 0 => ~global_event

\* C5: a closed Global Gate is eventually reopened.
GateEventuallyReopens ==
    ~global_event ~> global_event

FatalStatuses == Statuses \ ({429, 500, 502} \cup 200..299)

\* C6: a response with a fatal status (403, 404, 503, any other non-2xx but
\* 429, 500, 502) ends the request at once with the classified error of
\* that response.
FatalStatusEndsRequest ==
    \A q \in Req :
        r[q].status \in FatalStatuses =>
            /\ pc[q] = "raised"
            /\ result[q] = [kind |-> Classify(r[q].status), status |-> r[q].status,
                            data |-> r[q].data]

RetryThenSuccess ==
    \A q \in Req :
        clean[q] =>
            /\ pc[q] = "returned" =>
                   /\ result[q] = [kind |-> "ok", status |-> r[q].status, data |-> r[q].data]
                   /\ calls[q] = terrs[q] + 1
                   /\ calls[q] <= MaxTries
            /\ pc[q] = "raised" => terrs[q] = MaxTries

\* transport errors on attempts 1-4, success on attempt 5
RetryThenSuccessWitness ==
    \E q \in Req :
        /\ clean[q] /\ pc[q] = "returned" /\ terrs[q] = 4 /\ calls[q] = 5
        /\ result[q].data = "d2"

\* C10: once a cancellation is delivered the request has ended with it: it
\* starts no transport call and no sleep and is not retried, in the step
\* that delivers it and ever after.
CancellationEndsRequest ==
    [][\A q \in Req :
          cancelled'[q] =>
              /\ pc'[q] = "cancelled"
              /\ result'[q].kind = "CancelledError"
              /\ calls'[q] = calls[q]
              /\ tries'[q] = tries[q]
              /\ timer'[q] = 0]_vars

\* one request cancelled between retries and one cancelled while it waited
\* for the bucket lock or the gate, before any transport call
CancellationEndsRequestWitness ==
    \E p, q \in Req :
        /\ cancelled[p] /\ pc[p] = "cancelled" /\ tries[p] > 0 /\ calls[p] > 0
        /\ cancelled[q] /\ pc[q] = "cancelled" /\ calls[q] = 0

\* Request p called Lock.acquire before request q did
Before(p, q) ==
    \E i, j \in 1..Len(arrival) : i < j /\ arrival[i] = p /\ arrival[j] = q

\* C11: requests sharing a bucket lock send in the order of their acquire
\* calls: a request has started a transport call only if every request that
\* called acquire on the same lock before it has started one too, or was
\* cancelled; a deferred release does not change the order.
FifoOrder ==
    \A p, q \in Req :
        Before(p, q) /\ lock[p] = lock[q] /\ calls[q] > 0
            => calls[p] > 0 \/ pc[p] = "cancelled"

\* three requests on one lock have sent in their order of arrival, the first
\* two with a deferred release
FifoOrderWitness ==
    \E p, q, w \in Req :
        /\ arrival = <<p, q, w>>
        /\ lock[p] = lock[q] /\ lock[q] = lock[w]
        /\ owed[p] > 0 /\ owed[q] > 0
        /\ calls[p] > 0 /\ calls[q] > 0 /\ calls[w] > 0
        /\ pc[w] = "fetch"

\* Where a request is between `async with lock:` and its exit
Holding == {"wait_global", "poll", "fetch", "gsleep", "bsleep", "ssleep"}

\* C12: a request holds its bucket lock from its first attempt until it
\* exits: while it waits at the gate, polls the limiter, is in a transport
\* call or sleeps out a 429 or 500/502 backoff, the lock is locked, no release
\* is scheduled for it and no other request of the bucket is past the lock.
HeldAcrossRetries ==
    \A p \in Req :
        pc[p] \in Holding =>
            /\ locked[lock[p]]
            /\ release_at[p] = NoTimer
            /\ \A q \in Req \ {p} : lock[q] = lock[p] => pc[q] \notin Holding

\* a request sleeps out a bucket 429 before its next attempt while another
\* request of the bucket waits for the lock
HeldAcrossRetriesWitness ==
    \E p, q \in Req :
        /\ p # q /\ lock[p] = lock[q]
        /\ pc[p] = "bsleep" /\ timer[p] > 0 /\ calls[p] > 0
        /\ pc[q] = "acquire"

\* C13: a bucket-scoped 429 backoff is never cut short: no request of the
\* bucket is in a transport call before the retry_after of a non-global 429
\* has elapsed, also when the rate-limited request is cancelled meanwhile.
BackoffNeverCutShort ==
    \A q \in Req : pc[q] = "fetch" => backoff[lock[q]] = 0

\* Nobody is between `async with lock:` and its exit on lock l
Unheld(l) == \A p \in Req : lock[p] = l => pc[p] \notin Holding

\* C14: the bucket lock is released on every exit path: a locked lock has a
\* holder inside the block or a release scheduled by a holder that left; a
\* scheduled release eventually fires; and the first waiter of a lock nobody
\* holds any more eventually stops waiting (it acquires the lock, unless its
\* caller cancels it first).
LockEventuallyReleased ==
    /\ [](\A l \in Req : locked[l] =>
              \E p \in Req : lock[p] = l /\ (pc[p] \in Holding \/ release_at[p] # NoTimer))
    /\ \A p \in Req : (release_at[p] # NoTimer) ~> (release_at[p] = NoTimer)
    /\ \A q \in Req :
          (pc[q] = "acquire" /\ Head(waiters[lock[q]]) = q /\ Unheld(lock[q]))
              ~> (pc[q] # "acquire")

\* after the holder of a lock was cancelled and its release has fired, a
\* request that waited for the lock is in its transport call
LockEventuallyReleasedWitness ==
    \E p, q \in Req :
        /\ p # q /\ lock[p] = lock[q]
        /\ pc[p] = "cancelled" /\ calls[p] > 0 /\ release_at[p] = NoTimer
        /\ pc[q] = "fetch" /\ ~clean[p]

\* C15: after a response with remaining = 0 and a status other than 429 the
\* bucket lock stays locked for the reset delta after the request exits, and
\* no request of the bucket is in a transport call before the delta has
\* elapsed; a 429 response, whatever its headers, leaves the recorded delay
\* as it was.
ProactiveDeferral ==
    /\ [](\A l \in Req : hold[l] > 0 =>
              locked[l] /\ \A q \in Req : lock[q] = l => pc[q] # "fetch")
    /\ [][\A q \in Req :
            pc[q] = "fetch" /\ pc'[q] \in {"bsleep", "gsleep"}
                => delay'[lock[q]] = delay[lock[q]]]_vars

\* a request has returned on a response with remaining = 0, the deferral
\* still runs and another request of the bucket waits for the lock
ProactiveDeferralWitness ==
    \E p, q \in Req :
        /\ p # q /\ lock[p] = lock[q]
        /\ pc[p] = "returned" /\ hold[lock[p]] > 0
        /\ pc[q] = "acquire"

\* C16: the request that recorded a deferred release does not wait it out:
\* while its release is still to come the request has already ended with its
\* result, sleeps in nothing, and the lock is still locked.
ReturnsBeforeRelease ==
    \A q \in Req :
        release_at[q] > 0 =>
            /\ pc[q] \in Ended
            /\ result[q] # NoResult
            /\ timer[q] = 0
            /\ locked[lock[q]]

\* a request has returned its 2xx body while the deferral it recorded runs
ReturnsBeforeReleaseWitness ==
    \E q \in Req :
        /\ pc[q] = "returned" /\ result[q].kind = "ok"
        /\ owed[q] > 0 /\ release_at[q] = owed[q]
        /\ locked[lock[q]]

\* C17: deferral is one-shot: a lock's recorded delay is positive only while
\* a holder that recorded it is inside the block; each scoped release uses
\* the delay its own holder recorded (zero if it recorded none) and leaves
\* the lock's delay at zero, so no delay reaches a later holder's release.
OneShotDeferral ==
    /\ [](\A l \in Req : delay[l] > 0 =>
              \E q \in Req : lock[q] = l /\ pc[q] \in Holding /\ owed[q] = delay[l])
    /\ [][\A q \in Req :
            release_at[q] = NoTimer /\ release_at'[q] # NoTimer
                => release_at'[q] = owed'[q] /\ delay'[lock[q]] = 0]_vars

\* a request that recorded no deferral has scheduled its release with delay
\* zero on a lock whose earlier holder released it with a deferral
OneShotDeferralWitness ==
    \E p, q \in Req :
        /\ Before(p, q) /\ lock[p] = lock[q]
        /\ owed[p] > 0 /\ pc[p] = "returned"
        /\ owed[q] = 0 /\ pc[q] = "returned" /\ release_at[q] = 0

\* C18: the limiter caps the aggregate outbound rate: the transport calls
\* started since the last tick of the clock, which all lie in one window of
\* the limiter, never number more than the window's limit.
SentWithinLimit == sent <= RateAmount

\* Request q has called get_lock
Started(q) == pc[q] # "idle"

\* C19: the registry holds one lock per bucket key for the client's life:
\* any two requests with the same key got the same lock object from get_lock,
\* the one the registry holds for the key, and an entry of the registry is
\* never replaced or removed.
OneLockPerKey ==
    /\ [](\A p, q \in Req :
              Started(p) /\ Started(q) /\ RouteBucket(route[p]) = RouteBucket(route[q])
                  => lock[p] = lock[q] /\ locks[RouteBucket(route[p])] = lock[p])
    /\ [][\A b \in BucketKeys : locks[b] # NoLock => locks'[b] = locks[b]]_vars

\* a request got the lock its key's first request had created, after that
\* request had ended and released it, while a third key has its own lock
OneLockPerKeyWitness ==
    \E p, q, w \in Req :
        /\ p # q /\ RouteBucket(route[p]) = RouteBucket(route[q])
        /\ lock[p] = p /\ lock[q] = p
        /\ pc[p] \in Ended /\ release_at[p] = NoTimer
        /\ pc[q] = "fetch" /\ Started(w) /\ lock[w] = w /\ w # p

\* C20: distinct bucket keys impose no exclusion on each other: a request
\* whose key no other request has used goes straight to its transport call
\* when the gate is open and the limiter has a free slot, whatever the
\* requests of other keys are doing; and control_lock is held at no point
\* where a task is suspended, so never while a request waits for or holds a
\* bucket lock.
NoCrossBucketExclusion ==
    /\ [](~control_lock)
    /\ [][\A q \in Req :
            (/\ pc[q] = "idle" /\ Started(q)'
             /\ global_event /\ LimiterTest
             /\ \A p \in Req \ {q} :
                   Started(p) => RouteBucket(route[p]) # RouteBucket(route'[q]))
                => pc'[q] = "fetch"]_vars

\* with the gate open a request is in its transport call while the holder
\* of a second bucket sleeps out a 429 and the lock of a third bucket is in
\* its deferred-release window
NoCrossBucketExclusionWitness ==
    \E a, b, c \in Req :
        /\ lock[a] # lock[b] /\ lock[b] # lock[c] /\ lock[a] # lock[c]
        /\ pc[a] = "bsleep" /\ timer[a] > 0
        /\ pc[c] = "returned" /\ release_at[c] > 0 /\ locked[lock[c]]
        /\ pc[b] = "fetch" /\ calls[b] = 1 /\ global_event

\* C21: a request without scoping parameters (no channel_id, no guild_id) is
\* given a lock that is not stored in the registry: it never waits for the
\* lock and no other request ever waits on its lock.
UnscopedLockIsPrivate ==
    \A q \in Req :
        Started(q) /\ route[q].channel_id = None /\ route[q].guild_id = None =>
            /\ \A b \in BucketKeys : locks[b] # lock[q]
            /\ pc[q] # "acquire"
            /\ waiters[lock[q]] = <<>>

ErrorKindByStatus ==
    \A q \in Req :
        (pc[q] = "raised" /\ last[q] = "resp" /\ r[q].status \in FatalStatuses) =>
            /\ result[q].kind = CASE r[q].status = 403 -> "Forbidden"
                                  [] r[q].status = 404 -> "NotFound"
                                  [] r[q].status = 503 -> "DiscordServerError"
                                  [] OTHER -> "HTTPException"
            /\ result[q].status = r[q].status
            /\ result[q].data = r[q].data

\* a request ended by a 404 raised NotFound with the body of that response
ErrorKindByStatusWitness ==
    \E q \in Req :
        /\ pc[q] = "raised" /\ last[q] = "resp" /\ r[q].status = 404
        /\ result[q] = [kind |-> "NotFound", status |-> 404, data |-> r[q].data]

\* C24: every error raised to the caller of request, static_login,
\* get_gateway or get_bot_gateway carries a status and a decoded body, those
\* of the final response when the last attempt received one.
ErrorsCarryResponse ==
    \A q \in Req :
        outcome[q].kind \notin {"none", "ok"} =>
            /\ outcome[q].status # 0
            /\ outcome[q].data # "none"
            /\ last[q] = "resp" => /\ outcome[q].status = r[q].status
                                   /\ outcome[q].data = r[q].data

\* C25: when the request of static_login ends with an error raised from a
\* response, the caller gets LoginFailure if that status is 401 and the very
\* error otherwise, and token and bot_token are again what they were before
\* the call; when it ends with success they hold the new token.
StaticLoginRestores ==
    [][\A q \in Req :
          (api[q] = "static_login" /\ outcome[q] = NoResult /\ outcome'[q] # NoResult) =>
              /\ (pc'[q] = "raised" /\ result'[q].status = 401) =>
                     /\ outcome'[q].kind = "LoginFailure"
                     /\ <<token', bot_token'>> = saved
              /\ (pc'[q] = "raised" /\ result'[q].status \notin {0, 401}) =>
                     /\ outcome'[q] = result'[q]
                     /\ <<token', bot_token'>> = saved
              /\ pc'[q] = "returned" =>
                     /\ outcome'[q] = result'[q]
                     /\ <<token', bot_token'>> = <<q, q = 1>>
                     /\ <<token', bot_token'>> = <<token, bot_token>>]_vars

\* after a successful login with token 1 a second static_login was answered
\* 401: its caller got LoginFailure and the client holds token 1 again
StaticLoginRestoresWitness ==
    /\ api[1] = "static_login" /\ outcome[1].kind = "ok"
    /\ api[2] = "static_login" /\ outcome[2] = LoginFailure
    /\ result[2].status = 401
    /\ token = 1 /\ bot_token

GuildKeyIgnoresIds ==
    \A path \in GuildTemplates :
        \A parameters \in RouteParameters(path) :
            LET other == MkRoute(route[1].method, path, parameters)
            IN (route[1].path = path /\ route[1].guild_id = 123 /\ other.guild_id = 123) =>
                   /\ route[1].url \in GuildUrls
                   /\ RouteBucket(other) = RouteBucket(route[1])

\* C27 amended: a route built from a template with {guild_id} and
\* guild_id = 123 has 123 substituted in its URL, and a route built by the
\* same call with other ids has the same bucket key exactly when its
\* channel_id is the same: the key ignores a message or user id, not a
\* channel id.
GuildKeyIgnoresMessageId ==
    \A path \in GuildTemplates :
        \A parameters \in RouteParameters(path) :
            LET other == MkRoute(route[1].method, path, parameters)
            IN (route[1].path = path /\ route[1].guild_id = 123 /\ other.guild_id = 123) =>
                   /\ route[1].url \in GuildUrls
                   /\ (RouteBucket(other) = RouteBucket(route[1]))
                          <=> other.channel_id = route[1].channel_id

\* the channels of guild 123 requested with a channel_id of 2 in the call
GuildKeyIgnoresMessageIdWitness ==
    /\ route[1].url = BASE \o "/guilds/123/channels"
    /\ RouteBucket(route[1]) = "2:123:/guilds/{guild_id}/channels"

\* C28: the delay of a bucket lock is written only by the request that holds
\* the lock: a request in its transport call, whose response may record a
\* deferral, is the only request inside the block of its lock and no release
\* of that lock is pending; the delay changes only in a step of the holder,
\* at its response or at its exit; and from a request's exit to the unlock it
\* scheduled the delay stays zero.
DelayWrittenByHolder ==
    /\ [](\A q \in Req :
              pc[q] = "fetch" =>
                  /\ locked[lock[q]]
                  /\ \A p \in Req :
                         lock[p] = lock[q] =>
                             /\ release_at[p] = NoTimer
                             /\ p # q => pc[p] \notin Holding)
    /\ [][\A l \in Req :
              delay'[l] # delay[l] =>
                  \E q \in Req : /\ lock[q] = l /\ pc[q] \in Holding
                                 /\ pc[q] = "fetch" \/ pc'[q] \in Ended
                                 /\ \A p \in Req \ {q} : pc'[p] = pc[p] /\ r'[p] = r[p]]_vars
    /\ [](\A p \in Req : release_at[p] # NoTimer => delay[lock[p]] = 0)

\* the second holder of a lock has recorded a deferral of its own and left,
\* its unlock is pending and a third request waits; the first holder's
\* deferral is over
DelayWrittenByHolderWitness ==
    \E p, q, w \in Req :
        /\ lock[p] = lock[q] /\ lock[w] = lock[q] /\ Before(p, q)
        /\ pc[p] = "returned" /\ owed[p] > 0 /\ release_at[p] = NoTimer
        /\ pc[q] = "returned" /\ owed[q] > 0 /\ release_at[q] > 0
        /\ pc[w] = "acquire" /\ delay[lock[q]] = 0

\* C29: every attempt of a request sends the URL of its first attempt: the
\* query of the URL handed to the transport is the request's params appended
\* once to the query of route.url, on the first attempt and on every retry.
SameUrlEachAttempt ==
    \A q \in Req : pc[q] = "fetch" => query[q] = UrlConcat(<<>>, params[q])

\* C30: absent cancellation every call of request ends, with a value or an
\* error, when the loop runs its tasks fairly, every transport call returns
\* and every retry_after is finite.
RequestTerminates ==
    \A q \in Req : (pc[q] # "idle") ~> (pc[q] \in Ended)

\* two requests of one bucket have both ended: one raised after five attempts,
\* the last answered 429, the other returned after a retry of its own
RequestTerminatesWitness ==
    \E p, q \in Req :
        /\ p # q /\ lock[p] = lock[q]
        /\ pc[p] = "raised" /\ calls[p] = MaxTries /\ result[p].status = 429
        /\ pc[q] = "returned" /\ calls[q] > 1
        /\ release_at[p] = NoTimer /\ release_at[q] = NoTimer

\* C31: a 429 response without a Via header never closes the gate and never
\* starts a backoff sleep, whatever its body says: the gate stays open, no
\* request sleeps, and a request that such a response ended has raised
\* HTTPException with the status and body of that response.
NoViaRaisesHTTPException ==
    /\ global_event /\ cooldown = 0
    /\ \A q \in Req :
           /\ pc[q] \notin {"gsleep", "bsleep", "ssleep", "wait_global"} /\ timer[q] = 0
           /\ (pc[q] = "raised" /\ last[q] = "resp" /\ r[q].status = 429 /\ ~via_header[q]) =>
                  result[q] = [kind |-> "HTTPException", status |-> 429, data |-> r[q].data]

\* C32: the delay a request's release is scheduled with is the delta of its
\* most recent response with remaining = 0 and a status other than 429, zero
\* when it had none: while the request is inside the block the lock's delay
\* is that delta, through every later attempt, sleep and wait, and the exit,
\* by return, error or cancellation, schedules the release with it.
DelayPersists ==
    /\ [](\A q \in Req : pc[q] \in Holding => delay[lock[q]] = owed[q])
    /\ [][\A q \in Req :
            (pc[q] \in Holding /\ pc'[q] \in Ended) => release_at'[q] = owed'[q]]_vars

\* a request recorded a deferral on a 500, made a further attempt and was
\* cancelled: its release waits for the delta of the 500
DelayPersistsWitness ==
    \E q \in Req :
        /\ pc[q] = "cancelled" /\ calls[q] >= 2 /\ r[q].status = 500
        /\ owed[q] > 0 /\ release_at[q] = owed[q]

ExtractIsDoExtract ==
    /\ [](\A c \in Req : extracting[c].pc = "returned" =>
              extracting[c].cached = DoExtract(extracting[c].query, extracting[c].choices))
    /\ [](\A c \in Req, d \in Req :
              (/\ extracting[c].pc # "idle" /\ extracting[d].pc # "idle"
               /\ <<extracting[c].query, extracting[c].choices>>
                      # <<extracting[d].query, extracting[d].choices>>)
              => extracting[c].key # extracting[d].key)
    /\ [][\A c \in Req :
            (extracting[c].pc # "do_extract" /\ extracting'[c].pc = "do_extract")
            => NotCached(RedisGet(redis, extracting[c].key))]_vars

====
